---- MODULE Spec2Model ----
(***************************************************************************)
(* A model of TA++ (ta++.h): the series containers, the candle bundle and  *)
(* its file loader, and the TA indicator wrapper around the external       *)
(* TA-lib function handle; and of the Gnuplot chart of ta++-plot.h.        *)
(*                                                                         *)
(* Numbers.  TA_Real values are modelled by integers (prices in cents).    *)
(* TA_Integer is a 32-bit int and inputFirst/inputSize are 32-bit          *)
(* unsigned; every value the model produces is far below 2^31, where the   *)
(* mixed signed/unsigned arithmetic of the source coincides with integer   *)
(* arithmetic (an unsigned difference that wraps compares equal to an int  *)
(* exactly when the two integers are equal).                               *)
(***************************************************************************)
EXTENDS Integers, Sequences, FiniteSets, TLC

\* ------------------------------------------------------------------ bounds
\* Most rows the bundle ever holds; a file handed to LoadFromFile has no
\* more rows than the bundle has room for.
MaxCandles == 3
\* Largest value handed to a setFirst call.
MaxFirst == 2
\* Largest flags value handed to a setFlags call.
MaxFlags == 1

\* Longest standalone series built by push_back.
MaxSeries == 3
\* Longest option list handed to a TA constructor.
MaxOpts == 2
\* Largest lookback the external handle reports.
MaxLookback == 2

\* Most panes a chart is given.
MaxPanes == 4
\* A pane receives draw calls while it holds fewer clauses than this.
MaxClauses == 2
\* Most series draws made on a chart that is rendered.
MaxChartDraws == 1
\* Most render calls made on a chart.
MaxRenders == 2
\* Largest high, low, close or volume of a candle handed to a merge.
MaxPrice == 2

\* --------------------------------------------------------------- variables
VARIABLES
    pc,         \* where the single thread of the program is
    candles,    \* the Candles bundle: BaseSeries part + seven member series
    file,       \* rows of the file LoadFromFile is reading (or read last)
    readable,   \* whether std::ifstream could open that file
    pos,        \* number of rows the stream has consumed
    begin,      \* LoadFromFile's begin argument
    end,        \* LoadFromFile's end argument
    constructed,\* whether the Candles constructor has been entered
    base,       \* size of the bundle when the running LoadFromFile began
    series,     \* a standalone RealSeries
    ta,         \* the TA object under construction or constructed
    chart,      \* the GnuplotChart and its panes
    script,     \* content of the file at the chart's script path
    call,       \* the last call made on the chart or a pane, with arguments
    renders,    \* number of render calls made on the chart
    drawn,      \* per pane, the series-level draw calls it has received
    merge       \* the operands and the progress of a Candle::operator+=

\* The variables of the chart and of the candle merge.
plotVars == <<chart, script, call, renders, drawn, merge>>

vars ==
    <<pc, candles, file, readable, pos, begin, end, constructed, base,
      series, ta, chart, script, call, renders, drawn, merge>>

\* ------------------------------------------------------------------- time
\* boost::gregorian::date keeps a day count; neg_infin and pos_infin are the
\* smallest and the largest value of the count's type.  ENDING stands for
\* that largest value (it only has to exceed every day number).
BEGINNING == 0
ENDING == 2147483647

IsLeapYear(y) == (y % 4 = 0 /\ y % 100 # 0) \/ y % 400 = 0

EndOfMonthDay(y, m) ==
    IF m = 2 THEN (IF IsLeapYear(y) THEN 29 ELSE 28)
    ELSE IF m \in {4, 6, 9, 11} THEN 30 ELSE 31

\* from_string accepts a year-month-day token only if it names a real date;
\* otherwise it throws, and nothing in the program catches the exception.
ValidDate(tok) ==
    /\ tok[1] \in 1400..9999
    /\ tok[2] \in 1..12
    /\ tok[3] \in 1..EndOfMonthDay(tok[1], tok[2])

\* The day count from_string computes for a valid token.
DayNumber(tok) ==
    LET a == (14 - tok[2]) \div 12
        y == tok[1] + 4800 - a
        m == tok[2] + 12 * a - 3
    IN  tok[3] + ((153 * m + 2) \div 5) + 365 * y
        + (y \div 4) - (y \div 100) + (y \div 400) - 32045

str2time(tok) == DayNumber(tok)

\* ----------------------------------------------------------------- series
\* BaseSeries () : first(0), flags(0), and an empty vector.
NewSeries == [first |-> 0, flags |-> 0, data |-> << >>]

BaseSetFirst(s, f) == [s EXCEPT !.first = f]

BaseSetFlags(s, f) == [s EXCEPT !.flags = f]

push_back(s, v) == [s EXCEPT !.data = Append(@, v)]

Members == {"open", "high", "low", "close", "volume", "openInterest", "time"}

\* A Candles object before its constructor body runs.
NewCandles ==
    [first |-> 0, flags |-> 0,
     open |-> NewSeries, high |-> NewSeries, low |-> NewSeries,
     close |-> NewSeries, volume |-> NewSeries,
     openInterest |-> NewSeries, time |-> NewSeries]

\* Candles::size()
CandlesSize(c) == Len(c.open.data)

\* ------------------------------------------------------------- file rows
\* A numeric column the stream extraction cannot parse.
BadNum == -1

Row(tok, k) ==
    [tok |-> tok, open |-> k, high |-> k + 2, low |-> k - 1,
     close |-> k + 1, volume |-> 100 * k, openInterest |-> 0]

D1 == <<2008, 1, 1>>
D2 == <<2008, 1, 2>>
D3 == <<2008, 1, 3>>
D4 == <<2008, 1, 4>>
BadDate == <<2008, 2, 30>>

GoodRows == {Row(D1, 10), Row(D2, 20), Row(D3, 30)}

\* A row whose high column is not a number, and a row whose date token does
\* not name a date.
BadRows == {[Row(D2, 20) EXCEPT !.high = BadNum], Row(BadDate, 40)}

Rows == GoodRows \cup BadRows

SeqsUpTo(S, n) == UNION {[1..k -> S] : k \in 0..n}

Files == SeqsUpTo(Rows, MaxCandles)

Begins == {BEGINNING, str2time(D2), str2time(D3)}

Ends == {str2time(D1), str2time(D3), str2time(D4), ENDING}

\* fin >> buf >> open >> high >> low >> close >> volume >> openInterest
\* succeeds iff all six numeric columns parse.
Extracts(row) ==
    /\ row.open # BadNum /\ row.high # BadNum /\ row.low # BadNum
    /\ row.close # BadNum /\ row.volume # BadNum
    /\ row.openInterest # BadNum

\* A loader that also skips the row dated begin.
BeforeBegin_Inclusive(t, b) == t <= b

\* if (candle.time < begin) continue;
BeforeBegin(t, b) == t < b

\* if (candle.time >= end) ...
ReachedEnd(t, e) == t >= e

\* A loader that skips a row at or after end and keeps scanning.
EndBranchPc_Continue == "load"

\* ... break; control leaves the loop and reaches the end of LoadFromFile.
EndBranchPc == "ret"

\* The seven push_back calls of one loop iteration.
AppendCandle(c, row, t) ==
    [c EXCEPT !.time = push_back(@, t),
              !.open = push_back(@, row.open),
              !.high = push_back(@, row.high),
              !.low = push_back(@, row.low),
              !.close = push_back(@, row.close),
              !.volume = push_back(@, row.volume),
              !.openInterest = push_back(@, row.openInterest)]

\* A setFirst that forgets the time member.
CandlesSetFirstOp_NoTime(c, f) ==
    [c EXCEPT !.first = f,
              !.open = BaseSetFirst(@, f), !.high = BaseSetFirst(@, f),
              !.low = BaseSetFirst(@, f), !.close = BaseSetFirst(@, f),
              !.volume = BaseSetFirst(@, f),
              !.openInterest = BaseSetFirst(@, f)]

\* Candles::setFirst
CandlesSetFirstOp(c, f) ==
    [c EXCEPT !.first = f,
              !.open = BaseSetFirst(@, f), !.high = BaseSetFirst(@, f),
              !.low = BaseSetFirst(@, f), !.close = BaseSetFirst(@, f),
              !.volume = BaseSetFirst(@, f),
              !.openInterest = BaseSetFirst(@, f),
              !.time = BaseSetFirst(@, f)]

\* Candles::setFlags
CandlesSetFlagsOp(c, f) ==
    [c EXCEPT !.flags = f,
              !.open = BaseSetFlags(@, f), !.high = BaseSetFlags(@, f),
              !.low = BaseSetFlags(@, f), !.close = BaseSetFlags(@, f),
              !.volume = BaseSetFlags(@, f),
              !.openInterest = BaseSetFlags(@, f),
              !.time = BaseSetFlags(@, f)]

\* ---------------------------------------------------------- TA indicator
\* What the external library reports about the function handles the model
\* uses (TA_GetFuncInfo, TA_GetInputParameterInfo,
\* TA_GetOptInputParameterInfo, TA_GetOutputParameterInfo).
FuncTable ==
    [EMA |->
        [inputs |-> <<"Real">>,
         optInputs |-> <<[paramName |-> "optInTimePeriod",
                          type |-> "IntegerRange"]>>,
         outputs |-> <<[paramName |-> "outReal", type |-> "Real",
                        flags |-> 1]>>],
     BBANDS |->
        [inputs |-> <<"Real">>,
         optInputs |-> <<[paramName |-> "optInTimePeriod",
                          type |-> "IntegerRange"],
                         [paramName |-> "optInNbDevUp",
                          type |-> "RealRange"],
                         [paramName |-> "optInMAType",
                          type |-> "IntegerList"]>>,
         outputs |-> <<[paramName |-> "outRealUpperBand", type |-> "Real",
                        flags |-> 1],
                       [paramName |-> "outRealMiddleBand", type |-> "Real",
                        flags |-> 1],
                       [paramName |-> "outRealLowerBand", type |-> "Real",
                        flags |-> 1]>>],
     CORREL |->
        [inputs |-> <<"Real", "Real">>,
         optInputs |-> <<[paramName |-> "optInTimePeriod",
                          type |-> "IntegerRange"]>>,
         outputs |-> <<[paramName |-> "outReal", type |-> "Real",
                        flags |-> 1]>>],
     CDLDOJI |->
        [inputs |-> <<"Price">>,
         optInputs |-> << >>,
         outputs |-> <<[paramName |-> "outInteger", type |-> "Integer",
                        flags |-> 1]>>]]

\* Indicator names a constructor is called with; the last has no handle.
FuncNames == {"EMA", "BBANDS", "CORREL", "CDLDOJI", "NOSUCH"}

\* TA::Option: a name and the type tag the Option constructor stored.  The
\* value is handed to the library unread, so it is not modelled.
OptionChoices ==
    {[name |-> "optInTimePeriod", type |-> "INTEGER"],
     [name |-> "optInTimePeriod", type |-> "REAL"],
     [name |-> "optInNbDevUp", type |-> "REAL"],
     [name |-> "optInBogus", type |-> "INTEGER"]}

OptionLists == SeqsUpTo(OptionChoices, MaxOpts)

\* The series a constructor can be handed: the standalone series, the
\* bundle's close member, the bundle itself.
InputNames == {"series", "close", "candles"}

InputPairs ==
    {<<"series", "close">>, <<"close", "series">>, <<"series", "series">>,
     <<"candles", "series">>}

\* input.getFirst()
InputFirst(x, c, s) ==
    IF x = "series" THEN s.first
    ELSE IF x = "close" THEN c.close.first
    ELSE c.first

\* input.size()
InputLen(x, c, s) ==
    IF x = "series" THEN Len(s.data)
    ELSE IF x = "close" THEN Len(c.close.data)
    ELSE CandlesSize(c)

\* The input type each setInputHelper overload verifies.
InputType(x) == IF x = "candles" THEN "Price" ELSE "Real"

Max(a, b) == IF a > b THEN a ELSE b

Min(a, b) == IF a < b THEN a ELSE b

\* No TA object exists.
NoTA ==
    [stage |-> "none", name |-> "", inputs |-> << >>, options |-> << >>,
     optIdx |-> 0, optionMap |-> << >>, outputs |-> << >>,
     inputFirst |-> 0, inputSize |-> 0, lookback |-> 0,
     outBegIdx |-> 0, outNbElement |-> 0, bound |-> 0, inputPtr |-> << >>,
     called |-> FALSE]

\* TA::Init: the option table and the outputs of the handle.
InitOutputs(info) ==
    [i \in 1..Len(info.outputs) |->
        [type |-> info.outputs[i].type,
         name |-> info.outputs[i].paramName,
         real |-> BaseSetFlags(NewSeries, info.outputs[i].flags),
         integer |-> BaseSetFlags(NewSeries, info.outputs[i].flags)]]

InitOptionMap(info) ==
    [i \in 1..Len(info.optInputs) |-> info.optInputs[i].paramName]

\* optionMap.find(option.getName()) != optionMap.end()
OptionKnown(map, option) == \E i \in 1..Len(map) : map[i] = option.name

\* it->second (as a position in the handle's table)
OptionIndex(map, option) == CHOOSE i \in 1..Len(map) : map[i] = option.name

\* A setOption that reads either stored value whatever its tag.
OptionTypeMatches_Unchecked(option, declared) == TRUE

\* getReal / getInteger: the Option's stored tag must fit the declared type.
OptionTypeMatches(option, declared) ==
    IF declared \in {"RealRange", "RealList"} THEN option.type = "REAL"
    ELSE IF declared \in {"IntegerRange", "IntegerList"}
         THEN option.type = "INTEGER"
    ELSE TRUE

\* setOption does not panic on its own verify calls.
SetOptionPasses(t, option) ==
    /\ OptionKnown(t.optionMap, option)
    /\ OptionTypeMatches(option,
          FuncTable[t.name].optInputs[OptionIndex(t.optionMap, option)].type)

\* The index setInputHelper takes each bound input's address at:
\* &input[inputFirst], once per input bound.
InputPtrs(inFirst, k) == [i \in 1..k |-> inFirst]

\* A two-input setInput that starts at the earlier first.
EffectiveFirst_Min(f1, f2) == Min(f1, f2)

\* inputFirst = std::max(input1.getFirst(), input2.getFirst())
EffectiveFirst(f1, f2) == Max(f1, f2)

\* inputSize = std::min(input1.size(), input2.size())
EffectiveSize(n1, n2) == Min(n1, n2)

\* An update that forgets the input's first.
OutputFirst_LookbackOnly(inFirst, lookback) == lookback

\* TA_Integer outputFirst = inputFirst + lookback
OutputFirst(inFirst, lookback) == inFirst + lookback

\* An update that sizes the outputs to the valid part only.
OutputSize_ValidOnly(inSize, outFirst) == Max(inSize - outFirst, 0)

\* outputs[i].real.resize(inputSize)
OutputSize(inSize, outFirst) == inSize

\* The last index handed to TA_CallFunc.
EndIdx(inSize, inFirst) == inSize - inFirst - 1

\* verify(outBegIdx == lookback)
VerifyBegIdx(outBegIdx, lookback) == outBegIdx = lookback

\* An update without its second verify.
VerifyNbElement_Unchecked(outNbElement, inSize, outFirst) == TRUE

\* verify(outNbElement == inputSize - outputFirst)
VerifyNbElement(outNbElement, inSize, outFirst) ==
    outNbElement = inSize - outFirst

\* An output buffer after resize and after the external call stored n
\* elements from &buffer[outFirst] on: value-initialised cells are
\* "placeholder", stored cells "computed".  Cells past the buffer's end
\* do not exist.
OutputData(size, outFirst, n) ==
    [k \in 1..size |->
        IF k - 1 >= outFirst /\ k - 1 < outFirst + n
        THEN "computed" ELSE "placeholder"]

\* The loop of TA::update over the outputs, and the stores TA_CallFunc makes.
UpdateOutputs(outs, inSize, outFirst, n) ==
    [i \in 1..Len(outs) |->
        IF outs[i].type = "Real"
        THEN [outs[i] EXCEPT
                 !.real = [first |-> outFirst, flags |-> @.flags,
                           data |-> OutputData(OutputSize(inSize, outFirst),
                                               outFirst, n)]]
        ELSE [outs[i] EXCEPT
                 !.integer = [first |-> outFirst, flags |-> @.flags,
                              data |-> OutputData(OutputSize(inSize, outFirst),
                                                  outFirst, n)]]]

\* The series of an output that its type field declares valid.
ValidSeries(o) == IF o.type = "Real" THEN o.real ELSE o.integer

\* ---------------------------------------------------------------- doubles
\* The chart computes pane ratios in IEEE-754 binary64 and prints them with
\* the stream's default precision; both are modelled bit for bit.
\* Natural numbers of any size: sequences of limbs of fifteen bits, lowest
\* limb first, the highest limb not zero (zero is the empty sequence).
LimbBits == 15

Limb == 2 ^ LimbBits

RECURSIVE BNorm(_)
BNorm(a) ==
    IF a = << >> THEN << >>
    ELSE IF a[Len(a)] # 0 THEN a
    ELSE BNorm(SubSeq(a, 1, Len(a) - 1))

RECURSIVE BFromInt(_)
BFromInt(n) == IF n = 0 THEN << >> ELSE <<n % Limb>> \o BFromInt(n \div Limb)

RECURSIVE BToInt(_)
BToInt(a) == IF a = << >> THEN 0 ELSE a[1] + Limb * BToInt(Tail(a))

BLimb(a, i) == IF i <= Len(a) THEN a[i] ELSE 0

RECURSIVE BAddFrom(_, _, _, _)
BAddFrom(a, b, i, carry) ==
    IF i > Len(a) /\ i > Len(b)
    THEN IF carry = 1 THEN <<1>> ELSE << >>
    ELSE LET s == BLimb(a, i) + BLimb(b, i) + carry
         IN  <<s % Limb>> \o BAddFrom(a, b, i + 1, s \div Limb)

\* a + b
BAdd(a, b) == BAddFrom(a, b, 1, 0)

RECURSIVE BSubFrom(_, _, _, _)
BSubFrom(a, b, i, borrow) ==
    IF i > Len(a) THEN << >>
    ELSE LET s == BLimb(a, i) - BLimb(b, i) - borrow
         IN  <<s % Limb>> \o BSubFrom(a, b, i + 1, IF s < 0 THEN 1 ELSE 0)

\* a - b for a >= b
BSub(a, b) == BNorm(BSubFrom(a, b, 1, 0))

RECURSIVE BLessFrom(_, _, _)
BLessFrom(a, b, i) ==
    IF i = 0 THEN FALSE
    ELSE IF a[i] # b[i] THEN a[i] < b[i]
    ELSE BLessFrom(a, b, i - 1)

\* a < b
BLess(a, b) ==
    IF Len(a) # Len(b) THEN Len(a) < Len(b) ELSE BLessFrom(a, b, Len(a))

RECURSIVE BMulFrom(_, _, _, _)
BMulFrom(a, n, i, carry) ==
    IF i > Len(a)
    THEN IF carry # 0 THEN <<carry>> ELSE << >>
    ELSE LET s == a[i] * n + carry
         IN  <<s % Limb>> \o BMulFrom(a, n, i + 1, s \div Limb)

\* a * n for a natural n <= Limb
BMulInt(a, n) == IF n = 0 THEN << >> ELSE BMulFrom(a, n, 1, 0)

\* The quotient limb d put above the limbs of rest.
BDivPut(rest, d) == [q |-> rest.q \o <<d>>, r |-> rest.r]

RECURSIVE BDivFrom(_, _, _, _)
BDivFrom(a, n, i, rem) ==
    IF i = 0 THEN [q |-> << >>, r |-> rem]
    ELSE BDivPut(BDivFrom(a, n, i - 1, (rem * Limb + a[i]) % n),
                 (rem * Limb + a[i]) \div n)

BDivNorm(d) == [q |-> BNorm(d.q), r |-> d.r]

\* quotient and remainder of a / n for a natural 0 < n <= Limb
BDivInt(a, n) == BDivNorm(BDivFrom(a, n, Len(a), 0))

\* a * 2^k
BShl(a, k) ==
    IF a = << >> THEN << >>
    ELSE [i \in 1..(k \div LimbBits) |-> 0]
         \o BMulInt(a, 2 ^ (k % LimbBits))

\* floor(a / 2^k)
BShr(a, k) ==
    IF k \div LimbBits >= Len(a) THEN << >>
    ELSE BDivInt(SubSeq(a, k \div LimbBits + 1, Len(a)),
                 2 ^ (k % LimbBits)).q

\* bit i of a, the lowest being bit 1
BBit(a, i) ==
    (BLimb(a, (i - 1) \div LimbBits + 1) \div 2 ^ ((i - 1) % LimbBits)) % 2

\* whether a has a 1 among its lowest k bits
BLowBits(a, k) ==
    \/ \E i \in 1..(k \div LimbBits) : BLimb(a, i) # 0
    \/ BLimb(a, k \div LimbBits + 1) % 2 ^ (k % LimbBits) # 0

RECURSIVE IntBits(_)
IntBits(n) == IF n = 0 THEN 0 ELSE 1 + IntBits(n \div 2)

\* number of bits of a
BLen(a) ==
    IF a = << >> THEN 0 ELSE LimbBits * (Len(a) - 1) + IntBits(a[Len(a)])

\* q = floor(a / 2^k) moved to the integer nearest to a / 2^k, ties to
\* even
BRoundUp(a, k, q) ==
    IF BBit(a, k) = 1 /\ (BLowBits(a, k - 1) \/ BBit(q, 1) = 1)
    THEN BAdd(q, <<1>>)
    ELSE q

\* a / 2^k rounded to the nearest integer, ties to even
BRoundShr(a, k) ==
    IF k <= 0 THEN BShl(a, -k) ELSE BRoundUp(a, k, BShr(a, k))

\* Significand width of a double.
Precision == 53

\* A double is sign * man * 2^exp, man a number of Precision bits (or zero).
DZero == [sign |-> 1, man |-> << >>, exp |-> 0]

\* The double sign * q * 2^e for q of Precision bits, or of one bit more
\* when rounding carried into a new bit (q is then a power of two).
DPack(sign, q, e) ==
    IF BLen(q) > Precision
    THEN [sign |-> sign, man |-> BShr(q, 1), exp |-> e + 1]
    ELSE [sign |-> sign, man |-> q, exp |-> e]

\* a with its lowest k bits rounded away
DRoundBits(sign, a, e, k) == DPack(sign, BRoundShr(a, k), e + k)

\* The double nearest to sign * a * 2^e (round to nearest, ties to even).
DRound(sign, a, e) ==
    IF a = << >> THEN DZero ELSE DRoundBits(sign, a, e, BLen(a) - Precision)

\* Conversion of an integer to double (exact at this size).
DFromInt(n) ==
    DRound(IF n < 0 THEN -1 ELSE 1, BFromInt(IF n < 0 THEN -n ELSE n), 0)

\* x / n for a double x and an integer 0 < n < Limb
\* Twice the quotient d.q, with a lowest bit that tells whether the
\* division left a remainder.
BSticky(d) == BAdd(BShl(d.q, 1), IF d.r # 0 THEN <<1>> ELSE << >>)

DDivInt(x, n) ==
    DRound(x.sign, BSticky(BDivInt(BShl(x.man, Precision + 2), n)),
           x.exp - Precision - 3)

\* x * n for a double x and an integer 0 < n < Limb
DMulInt(x, n) == DRound(x.sign, BMulInt(x.man, n), x.exp)

DNeg(x) == [x EXCEPT !.sign = -x.sign]

\* x + y
\* The sum of two doubles whose significands a and b are aligned at the
\* exponent e.
DAddAligned(xsign, a, ysign, b, e) ==
    IF xsign = ysign THEN DRound(xsign, BAdd(a, b), e)
    ELSE DRound(IF BLess(a, b) THEN ysign ELSE xsign,
                IF BLess(a, b) THEN BSub(b, a) ELSE BSub(a, b), e)

DAddAt(x, y, e) ==
    DAddAligned(x.sign, BShl(x.man, x.exp - e), y.sign,
                BShl(y.man, y.exp - e), e)

DAdd(x, y) ==
    IF x.man = << >> THEN y
    ELSE IF y.man = << >> THEN x
    ELSE DAddAt(x, y, IF x.exp < y.exp THEN x.exp ELSE y.exp)

\* x - y
DSub(x, y) == DAdd(x, DNeg(y))

\* a * 10^k
RECURSIVE BTimesPow10(_, _)
BTimesPow10(a, k) ==
    IF k >= 4 THEN BMulInt(BTimesPow10(a, k - 4), 10000)
    ELSE BMulInt(a, 10 ^ k)

\* |x| * 10^k rounded to the nearest integer, ties to even
DScaled(x, k) == BToInt(BRoundShr(BTimesPow10(x.man, k), -x.exp))

\* The least k for which |x| * 10^k rounds to an integer of six digits or
\* more, and that integer.  |x| has Precision + x.exp bits, so the decimal
\* exponent of its first digit is f or f + 1, f the floor of
\* (bits - 1) * log10(2).
SixDigitsAt(x, k, d) ==
    IF d >= 100000 THEN [d |-> d, k |-> k]
    ELSE [d |-> DScaled(x, k + 1), k |-> k + 1]

SixDigitsFrom(x, k) ==
    SixDigitsAt(x, k, IF k >= 0 THEN DScaled(x, k) ELSE 0)

SixDigits(x) ==
    SixDigitsFrom(x, 4 - ((Precision + x.exp - 1) * 30103) \div 100000)

RECURSIVE StripZeros(_)
StripZeros(n) == IF n % 10 = 0 THEN StripZeros(n \div 10) ELSE n

RECURSIVE NumDigits(_)
NumDigits(n) == IF n < 10 THEN 1 ELSE 1 + NumDigits(n \div 10)

RECURSIVE Zeros(_)
Zeros(k) == IF k <= 0 THEN "" ELSE "0" \o Zeros(k - 1)

\* n in decimal, padded with zeros on the left to the given width
Padded(n, width) == Zeros(width - NumDigits(n)) \o ToString(n)

\* A double of magnitude below 10^6 rounded to the six significant digits
\* of the stream's default precision: the digits without trailing zeros and
\* the decimal exponent of the first digit.
FmtDigits(sign, s) ==
    IF s.d >= 1000000
    THEN [sign |-> sign, digits |-> StripZeros(s.d \div 10), exp10 |-> 6 - s.k]
    ELSE [sign |-> sign, digits |-> StripZeros(s.d), exp10 |-> 5 - s.k]

Fmt(x) ==
    IF x.man = << >> THEN [sign |-> 1, digits |-> 0, exp10 |-> 0]
    ELSE FmtDigits(x.sign, SixDigits(x))

\* The characters the default (%g) notation writes for those digits.
FmtText(t) ==
    LET nd == NumDigits(t.digits)
        minus == IF t.sign < 0 THEN "-" ELSE ""
        absExp == IF t.exp10 < 0 THEN -t.exp10 ELSE t.exp10
    IN  IF t.digits = 0 THEN "0"
        ELSE IF t.exp10 < -4 \/ t.exp10 >= 6
        THEN minus \o ToString(t.digits \div 10 ^ (nd - 1))
             \o (IF nd = 1 THEN ""
                 ELSE "." \o Padded(t.digits % 10 ^ (nd - 1), nd - 1))
             \o (IF t.exp10 < 0 THEN "e-" ELSE "e+") \o Padded(absExp, 2)
        ELSE IF t.exp10 < 0
        THEN minus \o "0." \o Zeros(-t.exp10 - 1) \o ToString(t.digits)
        ELSE IF nd <= t.exp10 + 1
        THEN minus \o ToString(t.digits * 10 ^ (t.exp10 + 1 - nd))
        ELSE minus \o ToString(t.digits \div 10 ^ (nd - t.exp10 - 1))
             \o "." \o Padded(t.digits % 10 ^ (nd - t.exp10 - 1),
                              nd - t.exp10 - 1)

\* os << x for a double x
DoubleText(x) == FmtText(Fmt(x))

\* os << v for a TA_Real v (the model's reals are whole numbers)
RealText(v) == DoubleText(DFromInt(v))

\* os << v for a TA_Integer or a size_t v
IntText(v) == ToString(v)

\* ------------------------------------------------------------------ chart
\* Bits of TA_OutputFlags that styleClause tests (values of ta_abstract.h).
TA_OUT_LINE == 1
TA_OUT_DOT_LINE == 2
TA_OUT_DASH_LINE == 4
TA_OUT_DOT == 8
TA_OUT_HISTO == 16
TA_OUT_PATTERN_BOOL == 32
TA_OUT_PATTERN_BULL_BEAR == 64
TA_OUT_PATTERN_STRENGTH == 128

\* flags & bit
HasFlag(flags, bit) == (flags \div bit) % 2 = 1

\* GnuplotPane (): ratio(1), offset(0), empty streams, first(true); and
\* Pane (): log(false).  A stream is the sequence of the pieces inserted in
\* it (cmd) or of its lines (data).
NewPane ==
    [name |-> "", log |-> FALSE, head |-> << >>, cmd |-> << >>,
     data |-> << >>, first |-> TRUE, ratio |-> DFromInt(1), offset |-> DZero]

\* No chart object exists.
NoChart ==
    [made |-> FALSE, name |-> "", script_path |-> "", image_path |-> "",
     panes |-> << >>]

\* No file exists at the script path.
NoFile == [path |-> "", lines |-> << >>]

\* No call has been made on the chart.
NoCall == [op |-> "none"]

\* What input() returns while first is set, and afterwards.
PlotToken == "plot \"-\" "
CommaToken == ", \"-\" "

\* An input() that opens every clause with the plot keyword.
InputText_AlwaysPlot(first) == PlotToken

\* GnuplotPane::input (its return value; the caller's pane has first
\* cleared)
InputText(first) == IF first THEN PlotToken ELSE CommaToken

\* titleClause
titleClause(name) ==
    IF name = "" THEN "notitle " ELSE "title \"" \o name \o "\" "

\* styleClause (TA_OutputFlags)
styleClause(flags) ==
    IF HasFlag(flags, TA_OUT_LINE) THEN "with lines "
    ELSE IF HasFlag(flags, TA_OUT_DOT_LINE) THEN "with lines "
    ELSE IF HasFlag(flags, TA_OUT_DASH_LINE) THEN "with lines "
    ELSE IF HasFlag(flags, TA_OUT_DOT) THEN "with dots "
    ELSE IF \/ HasFlag(flags, TA_OUT_HISTO)
            \/ HasFlag(flags, TA_OUT_PATTERN_BOOL)
            \/ HasFlag(flags, TA_OUT_PATTERN_BULL_BEAR)
            \/ HasFlag(flags, TA_OUT_PATTERN_STRENGTH)
         THEN "with impulses "
    ELSE "with lines "

\* styleClause (bool bars)
styleClauseBars(bars) ==
    IF bars THEN "with financebars " ELSE "with candlesticks "

\* color
color(c) == "lc rgb \"" \o c \o "\" "

\* data << 'e' << std::endl
Sentinel == "e"

\* A series draw whose loop starts at index 0.
DrawStart_Zero(s) == 0

\* size_t i = series.getFirst()
DrawStart(s) == s.first

\* data << series[i], for the element type of the overload
ElementText(type, v) == IF type = "Real" THEN RealText(v) ELSE IntText(v)

\* The rows the loop of GnuplotPane::draw writes: i, a tab, series[i], for
\* i from the start while i < series.size().
SeriesRows(s, type) ==
    [k \in 1..Max(Len(s.data) - DrawStart(s), 0) |->
        IntText(DrawStart(s) + k - 1) \o "\t"
        \o ElementText(type, s.data[DrawStart(s) + k])]

\* The two overloads of GnuplotPane::draw.
PaneDrawSeries(pane, name, s, type) ==
    [pane EXCEPT
        !.cmd = @ \o <<InputText(pane.first), "using 1:2 ",
                       styleClause(s.flags), titleClause(name)>>,
        !.first = FALSE,
        !.data = @ \o SeriesRows(s, type) \o <<Sentinel>>]

PaneDrawReal(pane, name, s) == PaneDrawSeries(pane, name, s, "Real")

PaneDrawInteger(pane, name, s) == PaneDrawSeries(pane, name, s, "Integer")

\* The indices 0 .. size-1 of a bundle, in order.
CandleIndices(c) == [k \in 1..CandlesSize(c) |-> k - 1]

\* if (series.getOpen()[i] > series.getClose()[i]) continue;
Falling(c, i) == c.open.data[i + 1] > c.close.data[i + 1]

\* The members a row of drawCandles holds for candle i, and the member a
\* row of drawVolumes holds.
CandleCells(c, i, what) ==
    IF what = "volume" THEN <<c.volume.data[i + 1]>>
    ELSE <<c.open.data[i + 1], c.high.data[i + 1], c.low.data[i + 1],
           c.close.data[i + 1]>>

\* data << '\t' << cell, for each of the cells
RECURSIVE TabbedReals(_)
TabbedReals(cells) ==
    IF cells = << >> THEN ""
    ELSE "\t" \o RealText(Head(cells)) \o TabbedReals(Tail(cells))

\* The row drawCandles writes for candle i, and the row drawVolumes writes.
CandleLine(c, i, what) == IntText(i) \o TabbedReals(CandleCells(c, i, what))

\* The rows written for the given indices.
LinesOf(c, kept, what) ==
    [k \in 1..Len(kept) |-> CandleLine(c, kept[k], what)]

\* The indices of the falling (or else of the rising) candles, in order.
KeptIndices(c, falling) ==
    LET Kept(i) == Falling(c, i) = falling
    IN  SelectSeq(CandleIndices(c), Kept)

\* The rows one loop of drawCandles or drawVolumes writes: the loop over
\* all indices that skips the falling (or else the rising) candles.
CandleRows(c, falling, what) == LinesOf(c, KeptIndices(c, falling), what)

\* A drawCandles that writes a single clause for its two blocks.
TwoClauses_One(pane, lead, style) ==
    <<InputText(pane.first), lead, style, color("green")>>

\* The two cmd statements of drawCandles and drawVolumes: the second
\* input() call finds first cleared.
TwoClauses(pane, lead, style) ==
    <<InputText(pane.first), lead, style, color("green"),
      InputText(FALSE), lead, style, color("red")>>

\* GnuplotPane::drawCandles
PaneDrawCandles(pane, c, bars) ==
    [pane EXCEPT
        !.cmd = @ \o TwoClauses(pane, "using 1:2:3:4:5 notitle ",
                                 styleClauseBars(bars)),
        !.first = FALSE,
        !.data = @ \o CandleRows(c, FALSE, "ohlc") \o <<Sentinel>>
                   \o CandleRows(c, TRUE, "ohlc") \o <<Sentinel>>]

\* GnuplotPane::drawVolumes
PaneDrawVolumes(pane, c) ==
    [pane EXCEPT
        !.cmd = @ \o TwoClauses(pane, "using 1:2 notitle ",
                                 styleClause(TA_OUT_HISTO)),
        !.first = FALSE,
        !.data = @ \o CandleRows(c, FALSE, "volume") \o <<Sentinel>>
                   \o CandleRows(c, TRUE, "volume") \o <<Sentinel>>]

\* A pane together with the record of the series-level draw calls made on
\* it; each virtual draw call adds its own entry.
CallDrawReal(pl, name, s) ==
    [pane |-> PaneDrawReal(pl.pane, name, s),
     log |-> Append(pl.log, [op |-> "draw", type |-> "Real",
                             name |-> name, series |-> s])]

CallDrawInteger(pl, name, s) ==
    [pane |-> PaneDrawInteger(pl.pane, name, s),
     log |-> Append(pl.log, [op |-> "draw", type |-> "Integer",
                             name |-> name, series |-> s])]

CallDrawCandles(pl, c, bars) ==
    [pane |-> PaneDrawCandles(pl.pane, c, bars),
     log |-> Append(pl.log, [op |-> "drawCandles", candles |-> c,
                             bars |-> bars])]

CallDrawVolumes(pl, c) ==
    [pane |-> PaneDrawVolumes(pl.pane, c),
     log |-> Append(pl.log, [op |-> "drawVolumes", candles |-> c])]

\* A naming that always takes the output's own name when no override is
\* given.
FullName_OutputName(ind, output, name) ==
    IF name = "" THEN output.name
    ELSE IF Len(ind.outputs) > 1 THEN name \o ":" \o output.name
    ELSE name

\* full_name in Pane::draw (const TA &, std::string)
FullName(ind, output, name) ==
    IF Len(ind.outputs) > 1
    THEN IF name = "" THEN output.name ELSE name \o ":" \o output.name
    ELSE IF name = "" THEN ind.name ELSE name

\* The body of the loop of Pane::draw (const TA &, std::string): the
\* virtual draw call for the output's type.
DrawOutput(pl, full_name, output) ==
    IF output.type = "Real" THEN CallDrawReal(pl, full_name, output.real)
    ELSE IF output.type = "Integer"
    THEN CallDrawInteger(pl, full_name, output.integer)
    ELSE pl

\* Pane::draw (const TA &indicator, std::string name): the loop over the
\* outputs, up to and including output k.
RECURSIVE DrawOutputs(_, _, _, _)
DrawOutputs(pl, ind, name, k) ==
    IF k = 0 THEN pl
    ELSE DrawOutput(DrawOutputs(pl, ind, name, k - 1),
                    FullName(ind, ind.outputs[k], name), ind.outputs[k])

CallDrawTA(pl, ind, name) == DrawOutputs(pl, ind, name, Len(ind.outputs))

\* GnuplotChart (name, script_path, image_path)
NewChart(name, sp, ip) ==
    [made |-> TRUE, name |-> name, script_path |-> sp, image_path |-> ip,
     panes |-> << >>]

\* GnuplotChart::addPane
AddPaneOp(ch, name) ==
    [ch EXCEPT !.panes = Append(@, [NewPane EXCEPT !.name = name])]

\* A range of the pieces of a stream, as one string.
RECURSIVE Join(_, _, _)
Join(pieces, lo, hi) ==
    IF lo > hi THEN ""
    ELSE IF lo = hi THEN pieces[lo]
    ELSE Join(pieces, lo, (lo + hi) \div 2)
         \o Join(pieces, (lo + hi) \div 2 + 1, hi)

\* stream.str()
Str(pieces) == Join(pieces, 1, Len(pieces))

\* GnuplotPane::dump: the lines it writes.
Dump(pane) ==
    <<"set xrange [0:]",
      "set size 1, " \o DoubleText(pane.ratio),
      "set origin 0, " \o DoubleText(pane.offset)>>
    \o (IF pane.log THEN <<"set logscale y">> ELSE << >>)
    \o <<Str(pane.head), "", Str(pane.cmd)>>
    \o pane.data
    \o (IF pane.log THEN <<"unset logscale y">> ELSE << >>)

\* if (script_path.size() == 0) script_path = getName() + ".gp"
ScriptPath(ch) ==
    IF ch.script_path = "" THEN ch.name \o ".gp" ELSE ch.script_path

\* if (image_path.size() == 0) image_path = getName() + ".png"
ImagePath(ch) ==
    IF ch.image_path = "" THEN ch.name \o ".png" ELSE ch.image_path

\* A stream opened for appending.
OpenScript_Append(lines) == lines

\* std::ofstream fout (script_path.c_str()): the content the file starts
\* with once it is opened (the default mode truncates).
OpenScript(lines) == << >>

\* int height = 480 * (2 + panes.size()) / 3
Height(n) == (480 * (2 + n)) \div 3

\* double ratio = 1.0 / (2 + panes.size())
Ratio(n) == DDivInt(DFromInt(1), 2 + n)

\* A loop that leaves the first pane its plain share.
FirstRatio_Plain(ratio) == ratio

\* if (first) r *= 3
FirstRatio(ratio) == DMulInt(ratio, 3)

\* The lines render writes before the panes.
RenderHead(ch, n) ==
    <<"set terminal png size 800, " \o IntText(Height(n)),
      "set output \"" \o ImagePath(ch) \o "\"",
      "set grid", "",
      "set key tmargin left horizontal",
      "set lmargin 10",
      "set multiplot layout " \o IntText(n) \o ",1",
      "">>

\* pane->dump(fout), after the loop's setRatio and setOffset on pane k.
RenderDump(before, k, acc, pane) ==
    [panes |-> [before.panes EXCEPT ![k] = pane],
     acc |-> acc,
     lines |-> before.lines \o Dump(pane)]

\* acc += r; pane->setRatio(r); pane->setOffset(1.0 - acc)
RenderSet(before, k, r, acc) ==
    RenderDump(before, k, acc,
               [before.panes[k] EXCEPT !.ratio = r,
                                       !.offset = DSub(DFromInt(1), acc)])

\* The body of the loop for pane k, given its share r.
RenderPane(before, k, r) == RenderSet(before, k, r, DAdd(before.acc, r))

\* The BOOST_FOREACH loop of render over the first k panes: the panes with
\* ratio and offset set, the running sum acc, the lines dumped.
RECURSIVE RenderLoop(_, _, _)
RenderLoop(panes, ratio, k) ==
    IF k = 0 THEN [panes |-> panes, acc |-> DZero, lines |-> << >>]
    ELSE RenderPane(RenderLoop(panes, ratio, k - 1), k,
                    IF k = 1 THEN FirstRatio(ratio) ELSE ratio)

\* GnuplotChart::render: the chart and the script file it leaves.
RenderWrite(named, old, n, loop) ==
    [chart |-> [named EXCEPT !.panes = loop.panes],
     script |-> [path |-> named.script_path,
                 lines |-> OpenScript(old.lines)
                           \o RenderHead(named, n)
                           \o loop.lines
                           \o <<"unset multiplot">>]]

RenderOp(ch, old) ==
    RenderWrite([ch EXCEPT !.script_path = ScriptPath(ch),
                           !.image_path = ImagePath(ch)],
                old, Len(ch.panes),
                RenderLoop(ch.panes, Ratio(Len(ch.panes)), Len(ch.panes)))

\* --------------------------------------------------------- chart samples
\* A bundle of a rising, a falling and a rising candle.
PlotCandles ==
    AppendCandle(
        AppendCandle(
            AppendCandle(NewCandles, Row(D1, 10), str2time(D1)),
            [Row(D2, 20) EXCEPT !.close = 18], str2time(D2)),
        Row(D3, 30), str2time(D3))

\* The series <<10, 20, 30>> with the given first and flags.
PlotSeries(first, flags) ==
    BaseSetFlags(
        BaseSetFirst(
            push_back(push_back(push_back(NewSeries, 10), 20), 30), first),
        flags)

\* Real series handed to draw: from the start, from index 1, with first at
\* the size, with first past the size.
PlotReals ==
    {PlotSeries(0, 0), PlotSeries(1, TA_OUT_DOT), PlotSeries(3, TA_OUT_LINE),
     PlotSeries(4, 0)}

\* Integer series handed to draw.
PlotIntegers ==
    {[first |-> f, flags |-> TA_OUT_PATTERN_BULL_BEAR,
      data |-> <<0, 100, -100>>] : f \in {0, 2}}

\* A name given to draw: none, or the example's.
PlotNames == {"", "MA5"}

\* What the external call stored in output cell k of output i.
StoredCells(o, i) ==
    [o EXCEPT
        !.data = [k \in 1..Len(o.data) |->
                     IF o.data[k] = "computed" THEN 100 * i + k ELSE 0]]

\* A TA object whose construction over an input of the given length and
\* first completed with the given lookback.
\* The TA object with the outputs update left and the external call
\* filled.
FilledTA(name, outs) ==
    [name |-> name,
     outputs |-> [i \in 1..Len(outs) |->
                     [outs[i] EXCEPT !.real = StoredCells(@, i),
                                     !.integer = StoredCells(@, i)]]]

DoneTA(name, inSize, inFirst, lookback) ==
    FilledTA(name,
             UpdateOutputs(InitOutputs(FuncTable[name]), inSize,
                           OutputFirst(inFirst, lookback),
                           inSize - OutputFirst(inFirst, lookback)))

\* Indicators handed to draw: one real output, three real outputs, one
\* integer output.
Indicators ==
    {DoneTA("EMA", 3, 0, 1), DoneTA("BBANDS", 3, 0, 2),
     DoneTA("CDLDOJI", 2, 0, 0)}

\* ------------------------------------------------------------ candle merge
\* Candle::operator += up to the end of its body.
CandleMerge(a, b) ==
    [a EXCEPT !.high = IF b.high > a.high THEN b.high ELSE a.high,
              !.low = IF b.low < a.low THEN b.low ELSE a.low,
              !.close = b.close,
              !.volume = a.volume + b.volume]

\* Candle (open, high, low, close, volume, openInterest, time)
Candle(o, h, l, c, v, oi, t) ==
    [open |-> o, high |-> h, low |-> l, close |-> c, volume |-> v,
     openInterest |-> oi, time |-> t]

\* No merge has been called.
NoMerge ==
    [pc |-> "none", a |-> Candle(0, 0, 0, 0, 0, 0, 0),
     b |-> Candle(0, 0, 0, 0, 0, 0, 0),
     before |-> Candle(0, 0, 0, 0, 0, 0, 0)]

\* ------------------------------------------------------------------ Init
Init ==
    /\ pc = "main"
    /\ candles = NewCandles
    /\ file = << >>
    /\ readable = TRUE
    /\ pos = 0
    /\ begin = BEGINNING
    /\ end = ENDING
    /\ constructed = FALSE
    /\ base = 0
    /\ series = NewSeries
    /\ ta = NoTA
    /\ chart = NoChart
    /\ script = NoFile
    /\ call = NoCall
    /\ renders = 0
    /\ drawn = << >>
    /\ merge = NoMerge

\* --------------------------------------------------------------- actions
\* Entry of LoadFromFile (the first call is the one the Candles constructor
\* makes): open the stream, verify(fin).
StartLoadFrom(FS) ==
    /\ pc = "main"
    /\ \/ \E f \in FS :
            /\ Len(f) <= MaxCandles - CandlesSize(candles)
            /\ file' = f
            /\ readable' = TRUE
            /\ pc' = "load"
       \/ \* the file cannot be opened: verify(fin) panics
          /\ file' = << >>
          /\ readable' = FALSE
          /\ pc' = "exit"
    /\ \E b \in Begins, e \in Ends : begin' = b /\ end' = e
    /\ pos' = 0
    /\ constructed' = TRUE
    /\ base' = CandlesSize(candles)
    /\ UNCHANGED <<candles, series, ta>>
    /\ UNCHANGED plotVars

StartLoad == StartLoadFrom(Files)

\* One evaluation of the while condition and, if it holds, the loop body.
LoadStep ==
    /\ pc = "load"
    /\ IF pos >= Len(file) \/ ~Extracts(file[pos + 1])
       THEN \* extraction failed (end of file or a malformed column): the
            \* loop ends and control reaches the end of LoadFromFile
            /\ pc' = "ret"
            /\ UNCHANGED <<candles, pos>>
       ELSE LET row == file[pos + 1] IN
            IF ~ValidDate(row.tok)
            THEN \* str2time throws; the exception is never caught
                 /\ pc' = "exit"
                 /\ pos' = pos + 1
                 /\ UNCHANGED candles
            ELSE LET t == str2time(row.tok) IN
                 IF BeforeBegin(t, begin)
                 THEN /\ pc' = "load"
                      /\ pos' = pos + 1
                      /\ UNCHANGED candles
                 ELSE IF ReachedEnd(t, end)
                 THEN /\ pc' = EndBranchPc
                      /\ pos' = pos + 1
                      /\ UNCHANGED candles
                 ELSE /\ pc' = "load"
                      /\ pos' = pos + 1
                      /\ candles' = AppendCandle(candles, row, t)
    /\ UNCHANGED <<file, readable, begin, end, constructed, base, series, ta>>
    /\ UNCHANGED plotVars

\* LoadFromFile returns: its locals (stream, arguments) go out of scope.
LoadReturn ==
    /\ pc = "ret"
    /\ pc' = "main"
    /\ file' = << >>
    /\ pos' = 0
    /\ begin' = BEGINNING
    /\ end' = ENDING
    /\ base' = 0
    /\ UNCHANGED <<candles, readable, constructed, series, ta>>
    /\ UNCHANGED plotVars

\* Candles::setFirst, called on the constructed bundle.
CandlesSetFirst ==
    /\ pc = "main"
    /\ constructed
    /\ \E f \in 0..MaxFirst : candles' = CandlesSetFirstOp(candles, f)
    /\ UNCHANGED <<pc, file, readable, pos, begin, end, constructed, base,
                   series, ta>>
    /\ UNCHANGED plotVars

\* Candles::setFlags, called on the constructed bundle.
CandlesSetFlags ==
    /\ pc = "main"
    /\ constructed
    /\ \E f \in 0..MaxFlags : candles' = CandlesSetFlagsOp(candles, f)
    /\ UNCHANGED <<pc, file, readable, pos, begin, end, constructed, base,
                   series, ta>>
    /\ UNCHANGED plotVars

Next ==
    \/ StartLoad
    \/ LoadStep
    \/ LoadReturn
    \/ CandlesSetFirst
    \/ CandlesSetFlags

Spec == Init /\ [][Next]_vars

\* ------------------------------------------------- series and TA actions
\* push_back on the standalone series.
SeriesPushBack ==
    /\ pc = "main"
    /\ Len(series.data) < MaxSeries
    /\ series' = push_back(series, 10 * (Len(series.data) + 1))
    /\ UNCHANGED <<pc, candles, file, readable, pos, begin, end, constructed,
                   base, ta>>
    /\ UNCHANGED plotVars

\* BaseSeries::setFirst on the standalone series.
SeriesSetFirst ==
    /\ pc = "main"
    /\ \E f \in 0..MaxFirst : series' = BaseSetFirst(series, f)
    /\ UNCHANGED <<pc, candles, file, readable, pos, begin, end, constructed,
                   base, ta>>
    /\ UNCHANGED plotVars

\* The file the indicator example loads its bundle from.
SampleFiles == {<<Row(D1, 10), Row(D2, 20)>>}

\* The Candles constructor, reading the sample file.
SampleLoad == ~constructed /\ StartLoadFrom(SampleFiles)

\* TA::Init, at the entry of a TA constructor.
TAInit(name, inputs, options) ==
    /\ \A i \in 1..Len(inputs) : inputs[i] # "series" => constructed
    /\ IF name \in DOMAIN FuncTable
       THEN /\ pc' = "ta"
            /\ ta' = [NoTA EXCEPT
                         !.stage = "options", !.name = name,
                         !.inputs = inputs, !.options = options,
                         !.optionMap = InitOptionMap(FuncTable[name]),
                         !.outputs = InitOutputs(FuncTable[name])]
       ELSE \* TA_GetFuncHandle fails: panic
            /\ pc' = "exit"
            /\ ta' = [NoTA EXCEPT !.stage = "init", !.name = name,
                                  !.inputs = inputs, !.options = options]
    /\ UNCHANGED <<candles, file, readable, pos, begin, end, constructed,
                   base, series>>
    /\ UNCHANGED plotVars

\* TA (name, input, options).  The model follows one TA object: a
\* constructor runs once.
TAConstruct1 ==
    /\ pc = "main"
    /\ ta.stage = "none"
    /\ \E name \in FuncNames, x \in InputNames, options \in OptionLists :
          TAInit(name, <<x>>, options)

\* TA (name, input1, input2, options)
TAConstruct2 ==
    /\ pc = "main"
    /\ ta.stage = "none"
    /\ \E name \in FuncNames, xs \in InputPairs, options \in OptionLists :
          TAInit(name, xs, options)

\* One iteration of the constructor's loop over the options: setOption.
TASetOption ==
    /\ pc = "ta" /\ ta.stage = "options"
    /\ ta.optIdx < Len(ta.options)
    /\ \E libOk \in BOOLEAN :
        IF SetOptionPasses(ta, ta.options[ta.optIdx + 1]) /\ libOk
        THEN /\ ta' = [ta EXCEPT !.optIdx = @ + 1]
             /\ pc' = "ta"
        ELSE \* verify fails, or TA_SetOptInputParam... fails: panic
             /\ ta' = ta
             /\ pc' = "exit"
    /\ UNCHANGED <<candles, file, readable, pos, begin, end, constructed,
                   base, series>>
    /\ UNCHANGED plotVars

\* setInput, one-input or two-input, after the last option is bound.
TASetInput ==
    /\ pc = "ta" /\ ta.stage = "options"
    /\ ta.optIdx = Len(ta.options)
    /\ LET info == FuncTable[ta.name]
           n == Len(ta.inputs)
           f1 == InputFirst(ta.inputs[1], candles, series)
           n1 == InputLen(ta.inputs[1], candles, series)
           assigned ==
               IF n = 1
               THEN [ta EXCEPT !.inputFirst = f1, !.inputSize = n1]
               ELSE [ta EXCEPT
                       !.inputFirst = EffectiveFirst(f1,
                           InputFirst(ta.inputs[2], candles, series)),
                       !.inputSize = EffectiveSize(n1,
                           InputLen(ta.inputs[2], candles, series))]
           \* number of setInputHelper calls whose verify passes
           helped ==
               IF InputType(ta.inputs[1]) # info.inputs[1] THEN 0
               ELSE IF n = 1 THEN 1
               ELSE IF InputType(ta.inputs[2]) # info.inputs[2] THEN 1
               ELSE 2
       IN  IF Len(info.inputs) # n
           THEN \* verify(funcInfo->nbInput == ...) fails
                /\ ta' = [ta EXCEPT !.stage = "input"]
                /\ pc' = "exit"
           ELSE IF helped < n
           THEN \* verify(info->type == ...) fails in setInputHelper
                /\ ta' = [assigned EXCEPT
                             !.stage = "input", !.bound = helped,
                             !.inputPtr = InputPtrs(assigned.inputFirst,
                                                    helped)]
                /\ pc' = "exit"
           ELSE \/ /\ ta' = [assigned EXCEPT
                                !.stage = "update", !.bound = n,
                                !.inputPtr = InputPtrs(assigned.inputFirst,
                                                       n)]
                   /\ pc' = "ta"
                \/ \* TA_SetInputParam...Ptr fails: panic
                   \E k \in 0..(n - 1) :
                       /\ ta' = [assigned EXCEPT
                                    !.stage = "input", !.bound = k,
                                    !.inputPtr =
                                        InputPtrs(assigned.inputFirst, k)]
                       /\ pc' = "exit"
    /\ UNCHANGED <<candles, file, readable, pos, begin, end, constructed,
                   base, series>>
    /\ UNCHANGED plotVars

\* TA::update.  The external handle reports the lookback; TA_CallFunc
\* either fails or reports a begin index and an element count, having
\* stored that many elements from each output pointer on (never more than
\* the range 0..endIdx it was given holds).
TAUpdate ==
    /\ pc = "ta" /\ ta.stage = "update"
    /\ \E lookback \in 0..MaxLookback :
        LET outFirst == OutputFirst(ta.inputFirst, lookback)
            endIdx == EndIdx(ta.inputSize, ta.inputFirst)
            called == [ta EXCEPT !.lookback = lookback, !.called = TRUE]
        IN  \/ \* TA_CallFunc does not return TA_SUCCESS: panic
               /\ ta' = [called EXCEPT
                            !.outputs = UpdateOutputs(@, ta.inputSize,
                                                      outFirst, 0)]
               /\ pc' = "exit"
            \/ \E outBegIdx \in 0..MaxLookback,
                  outNbElement \in 0..Max(endIdx + 1, 0) :
                LET after ==
                        [called EXCEPT
                            !.outBegIdx = outBegIdx,
                            !.outNbElement = outNbElement,
                            !.outputs = UpdateOutputs(@, ta.inputSize,
                                                      outFirst, outNbElement)]
                IN  IF /\ VerifyBegIdx(outBegIdx, lookback)
                       /\ VerifyNbElement(outNbElement, ta.inputSize,
                                          outFirst)
                    THEN /\ ta' = [after EXCEPT !.stage = "done"]
                         /\ pc' = "ta"
                    ELSE /\ ta' = after
                         /\ pc' = "exit"
    /\ UNCHANGED <<candles, file, readable, pos, begin, end, constructed,
                   base, series>>
    /\ UNCHANGED plotVars

\* The constructor returns; its arguments go out of scope.
TAReturn ==
    /\ pc = "ta" /\ ta.stage = "done"
    /\ pc' = "main"
    /\ ta' = [ta EXCEPT !.inputs = << >>, !.options = << >>, !.optIdx = 0,
                        !.inputPtr = << >>]
    /\ UNCHANGED <<candles, file, readable, pos, begin, end, constructed,
                   base, series>>
    /\ UNCHANGED plotVars

NextTA ==
    \/ SampleLoad
    \/ LoadStep
    \/ LoadReturn
    \/ CandlesSetFirst
    \/ SeriesPushBack
    \/ SeriesSetFirst
    \/ TAConstruct1
    \/ TAConstruct2
    \/ TASetOption
    \/ TASetInput
    \/ TAUpdate
    \/ TAReturn

SpecTA == Init /\ [][NextTA]_vars

\* ---------------------------------------------------------- chart actions
\* The chart with its per-pane call records, as one value.
Both == [chart |-> chart, drawn |-> drawn]

\* addPane on the chart, with an empty record for the new pane.
WithPane(cd, name) ==
    [chart |-> AddPaneOp(cd.chart, name), drawn |-> Append(cd.drawn, << >>)]

\* Pane p of the chart with its call record.
PaneOf(cd, p) == [pane |-> cd.chart.panes[p], log |-> cd.drawn[p]]

\* The chart after a call on pane p left res.
Put(cd, p, res) ==
    [chart |-> [cd.chart EXCEPT !.panes[p] = res.pane],
     drawn |-> [cd.drawn EXCEPT ![p] = res.log]]

\* addDefaultPanes: addPane("")->drawCandles(candles);
\* addPane("")->drawVolumes(candles).
defaultCandles(one, c) ==
    Put(one, 1, CallDrawCandles(PaneOf(one, 1), c, TRUE))

defaultVolumes(two, c) == Put(two, 2, CallDrawVolumes(PaneOf(two, 2), c))

addDefaultPanes(cd, c) ==
    defaultVolumes(WithPane(defaultCandles(WithPane(cd, ""), c), ""), c)

\* Script and image paths a chart is constructed with: the defaults, or
\* both given.
ChartPaths == {<<"", "">>, <<"out.gp", "out.png">>}

\* GnuplotChart (name, script_path, image_path), then addDefaultPanes in
\* the constructor that takes candles.
WithDefaults(fresh, withCandles) ==
    IF withCandles THEN addDefaultPanes(fresh, PlotCandles) ELSE fresh

Constructed(path, withCandles) ==
    WithDefaults([chart |-> NewChart("C", path[1], path[2]),
                  drawn |-> << >>], withCandles)

\* The two GnuplotChart constructors: without candles, or with candles and
\* the two default panes.
ChartConstructWith(paths, candleChoices) ==
    /\ pc = "main"
    /\ ~chart.made
    /\ \E path \in paths, withCandles \in candleChoices :
        \E res \in {Constructed(path, withCandles)} :
            /\ chart' = res.chart
            /\ drawn' = res.drawn
            /\ call' = [op |-> "chart", candles |-> withCandles]
    /\ UNCHANGED <<pc, candles, file, readable, pos, begin, end, constructed,
                   base, series, ta, script, renders, merge>>

ChartConstruct == ChartConstructWith(ChartPaths, BOOLEAN)

\* addPane, while the chart has fewer than n panes.
AddPaneUpTo(n) ==
    /\ pc = "main"
    /\ chart.made
    /\ renders = 0
    /\ Len(chart.panes) < n
    /\ \E res \in {WithPane(Both, "MACD")} :
        /\ chart' = res.chart
        /\ drawn' = res.drawn
    /\ call' = [op |-> "addPane", name |-> "MACD"]
    /\ UNCHANGED <<pc, candles, file, readable, pos, begin, end, constructed,
                   base, series, ta, script, renders, merge>>

AddPane == AddPaneUpTo(MaxPanes)

\* Number of plot clauses in a command stream: each clause opens with what
\* input() returned.
NumClauses(cmd) ==
    Cardinality({i \in 1..Len(cmd) : cmd[i] \in {PlotToken, CommaToken}})

\* The draw calls recorded on all panes.
DrawCalls(d) ==
    {x \in UNION {{<<q, i>> : i \in 1..Len(d[q])} : q \in 1..Len(d)} :
        d[x[1]][x[2]].op = "draw"}

\* Whether a study makes a further draw call on pane p: the study of one
\* pane while the pane holds fewer than MaxClauses clauses, the study of
\* a chart while the chart has received fewer than MaxChartDraws series
\* draws.
HasRoom(study, p) ==
    IF study = "pane" THEN NumClauses(chart.panes[p].cmd) < MaxClauses
    ELSE Cardinality(DrawCalls(drawn)) < MaxChartDraws

\* A call on pane p (getPane(p - 1)->...) that leaves res.
PaneCall(p, res, made) ==
    /\ chart' = [chart EXCEPT !.panes[p] = res.pane]
    /\ drawn' = [drawn EXCEPT ![p] = res.log]
    /\ call' = made
    /\ UNCHANGED <<pc, candles, file, readable, pos, begin, end, constructed,
                   base, series, ta, script, renders, merge>>

\* pane->draw(name, series) for a real series
DrawReal ==
    /\ pc = "main"
    /\ chart.made
    /\ renders = 0
    /\ \E p \in 1..Len(chart.panes) :
        /\ HasRoom("pane", p)
        /\ \E s \in PlotReals, name \in PlotNames :
            PaneCall(p, CallDrawReal(PaneOf(Both, p), name, s),
                     [op |-> "draw", pane |-> p, name |-> name])

\* pane->draw(name, series) for an integer series
DrawInteger ==
    /\ pc = "main"
    /\ chart.made
    /\ renders = 0
    /\ \E p \in 1..Len(chart.panes) :
        /\ HasRoom("pane", p)
        /\ \E s \in PlotIntegers :
            PaneCall(p, CallDrawInteger(PaneOf(Both, p), "CDL", s),
                     [op |-> "draw", pane |-> p, name |-> "CDL"])

\* pane->drawCandles(candles, bars)
DrawCandles ==
    /\ pc = "main"
    /\ chart.made
    /\ renders = 0
    /\ \E p \in 1..Len(chart.panes) :
        /\ HasRoom("pane", p)
        /\ \E bars \in BOOLEAN :
            PaneCall(p, CallDrawCandles(PaneOf(Both, p), PlotCandles, bars),
                     [op |-> "drawCandles", pane |-> p, bars |-> bars])

\* pane->drawVolumes(candles)
DrawVolumes ==
    /\ pc = "main"
    /\ chart.made
    /\ renders = 0
    /\ \E p \in 1..Len(chart.panes) :
        /\ HasRoom("pane", p)
        /\ PaneCall(p, CallDrawVolumes(PaneOf(Both, p), PlotCandles),
                    [op |-> "drawVolumes", pane |-> p])

\* pane->draw(indicator, name)
DrawTAWith(inds, names, study) ==
    /\ pc = "main"
    /\ chart.made
    /\ renders = 0
    /\ \E p \in 1..Len(chart.panes) :
        /\ HasRoom(study, p)
        /\ \E ind \in inds, name \in names :
            PaneCall(p, CallDrawTA(PaneOf(Both, p), ind, name),
                     [op |-> "drawTA", pane |-> p, ind |-> ind,
                      name |-> name])

DrawTA == DrawTAWith(Indicators, PlotNames, "pane")

\* The study of one pane: a chart without candles, one pane added, and
\* every kind of draw call on it.
SoloChart == ChartConstructWith({<<"", "">>}, {FALSE})

SoloPane == AddPaneUpTo(1)

NextPane ==
    \/ SoloChart
    \/ SoloPane
    \/ DrawReal
    \/ DrawInteger
    \/ DrawCandles
    \/ DrawVolumes
    \/ DrawTA

SpecPane == Init /\ [][NextPane]_vars

\* The example's chart.getPane(0)->draw(ma5, "MA5"), on any pane.
ChartDraw == DrawTAWith({DoneTA("EMA", 3, 0, 1)}, {"MA5"}, "chart")

\* chart.render().  The program renders last, as the example does: no
\* other chart call follows a render.
Render ==
    /\ pc = "main"
    /\ chart.made
    /\ renders < MaxRenders
    /\ \E res \in {RenderOp(chart, script)} :
        /\ chart' = res.chart
        /\ script' = res.script
    /\ renders' = renders + 1
    /\ call' = [op |-> "render"]
    /\ UNCHANGED <<pc, candles, file, readable, pos, begin, end, constructed,
                   base, series, ta, drawn, merge>>

NextChart ==
    \/ ChartConstruct
    \/ AddPane
    \/ ChartDraw
    \/ Render

SpecChart == Init /\ [][NextChart]_vars

\* ----------------------------------------------------- candle merge actions
\* Operands of a merge: a is an earlier candle, b a later one; high, low,
\* close and volume range over 1..MaxPrice.
MergeOperands(o, oi, t) ==
    {Candle(o, h, l, c, v, oi, t) :
        h \in 1..MaxPrice, l \in 1..MaxPrice, c \in 1..MaxPrice,
        v \in 1..MaxPrice}

\* a += b is called.
MergeCall ==
    /\ pc = "main"
    /\ merge.pc = "none"
    /\ \E a \in MergeOperands(1, 7, 1), b \in MergeOperands(2, 9, 2) :
        merge' = [pc |-> "body", a |-> a, b |-> b, before |-> a]
    /\ UNCHANGED <<pc, candles, file, readable, pos, begin, end, constructed,
                   base, series, ta, chart, script, call, renders, drawn>>

\* The four statements of operator +=.  Control then flows off the end of
\* a function declared to return a Candle, which is undefined: a build
\* either keeps the statements and runs on to the closing brace, or, as
\* the end cannot be reached in a defined execution, emits no code for
\* the body and traps.
MergeBody ==
    /\ pc = "main"
    /\ merge.pc = "body"
    /\ \/ /\ merge' = [merge EXCEPT !.pc = "end",
                                    !.a = CandleMerge(merge.a, merge.b)]
          /\ pc' = pc
       \/ /\ merge' = [merge EXCEPT !.pc = "trapped"]
          /\ pc' = "exit"
    /\ UNCHANGED <<candles, file, readable, pos, begin, end, constructed,
                   base, series, ta, chart, script, call, renders, drawn>>

\* The closing brace, reached without a return statement: the call returns
\* to its caller with an indeterminate value (which a += b discards), or
\* execution runs past the function and the process dies.
MergeEnd ==
    /\ pc = "main"
    /\ merge.pc = "end"
    /\ \/ /\ merge' = [merge EXCEPT !.pc = "returned"]
          /\ pc' = pc
       \/ /\ merge' = [merge EXCEPT !.pc = "trapped"]
          /\ pc' = "exit"
    /\ UNCHANGED <<candles, file, readable, pos, begin, end, constructed,
                   base, series, ta, chart, script, call, renders, drawn>>

NextCandle ==
    \/ MergeCall
    \/ MergeBody
    \/ MergeEnd

SpecCandle == Init /\ [][NextCandle]_vars

\* ================================================================ claims
\* Helpers for stating the loader's result.
WellFormed(f) == \A i \in 1..Len(f) : Extracts(f[i]) /\ ValidDate(f[i].tok)

RowTime(f, i) == str2time(f[i].tok)

Chronological(f) ==
    \A i, j \in 1..Len(f) : i < j => RowTime(f, i) <= RowTime(f, j)

InWindow(t) == begin <= t /\ t < end

\* The bundle's seven data columns are exactly the columns of rows.
BundleHolds(c, rows) ==
    /\ c.time.data = [i \in 1..Len(rows) |-> str2time(rows[i].tok)]
    /\ c.open.data = [i \in 1..Len(rows) |-> rows[i].open]
    /\ c.high.data = [i \in 1..Len(rows) |-> rows[i].high]
    /\ c.low.data = [i \in 1..Len(rows) |-> rows[i].low]
    /\ c.close.data = [i \in 1..Len(rows) |-> rows[i].close]
    /\ c.volume.data = [i \in 1..Len(rows) |-> rows[i].volume]
    /\ c.openInterest.data = [i \in 1..Len(rows) |-> rows[i].openInterest]

RowInWindow(row) == InWindow(str2time(row.tok))

\* A load that began on an empty bundle has finished; at pc = "ret" its
\* arguments are still in scope.
FirstLoadDone == pc = "ret" /\ base = 0

\* C1 as stated: for every sequence of (well-formed) rows and every window
\* with begin < end, the first load leaves exactly the rows with
\* begin <= time < end, in file order.
C1_AnyOrder ==
    (FirstLoadDone /\ WellFormed(file) /\ begin < end)
        => BundleHolds(candles, SelectSeq(file, RowInWindow))

\* C1 amended: the same for every chronologically ordered sequence of
\* well-formed rows.
C1_Chronological ==
    (FirstLoadDone /\ WellFormed(file) /\ Chronological(file) /\ begin < end)
        => BundleHolds(candles, SelectSeq(file, RowInWindow))

\* An ordered file with a row before begin, a row dated begin and a later
\* row inside the window: the first is left out and the other two are
\* loaded.
C1_Witness ==
    /\ FirstLoadDone /\ WellFormed(file) /\ Chronological(file)
    /\ begin < end
    /\ \E i, j \in 1..Len(file) :
          RowTime(file, i) < begin /\ RowTime(file, j) = begin
    /\ CandlesSize(candles) = 2
    /\ candles.time.data[1] = begin

\* Some row among the first n rows of the file has a time at or after end.
StopSeen(n) ==
    \E i \in 1..n :
        /\ i <= Len(file) /\ Extracts(file[i]) /\ ValidDate(file[i].tok)
        /\ RowTime(file, i) >= end

\* The stream is positioned at a well-formed row.
AtRow ==
    /\ pc = "load" /\ pos < Len(file)
    /\ Extracts(file[pos + 1]) /\ ValidDate(file[pos + 1].tok)

\* C2: the load is a prefix scan.  A step that appends a row reads it from
\* a position with no row at or after end at or before it; reading a row at
\* or after end (that the begin test did not skip) leaves the loop without
\* appending; reading a row before begin appends nothing and keeps
\* scanning.
C2_PrefixScan ==
    [][ /\ (candles'.time.data # candles.time.data)
            => (pc = "load" /\ pos' = pos + 1 /\ ~StopSeen(pos'))
        /\ (AtRow /\ RowTime(file, pos + 1) >= end
                  /\ RowTime(file, pos + 1) >= begin)
            => (pc' = "ret" /\ candles' = candles)
        /\ (AtRow /\ RowTime(file, pos + 1) < begin)
            => (pc' = "load" /\ pos' = pos + 1 /\ candles' = candles)
      ]_vars

\* The scan has stopped at a row dated end while a later row of the file
\* lies inside the window: that row is never read.
C2_Witness ==
    /\ pc = "ret" /\ pos < Len(file) /\ pos >= 1
    /\ WellFormed(file)
    /\ RowTime(file, pos) = end
    /\ InWindow(RowTime(file, pos + 1))

\* Position of the stopping row: the first well-formed row at or after end
\* (and not before begin), or one past the end of the file.
StopPos(f) ==
    LET S == {i \in 1..Len(f) :
                 /\ Extracts(f[i]) /\ ValidDate(f[i].tok)
                 /\ RowTime(f, i) >= end /\ RowTime(f, i) >= begin}
    IN  IF S = {} THEN Len(f) + 1
        ELSE CHOOSE i \in S : \A j \in S : i <= j

LoadableInWindow(row) ==
    Extracts(row) /\ ValidDate(row.tok) /\ RowInWindow(row)

\* C3: a load that returns has loaded every in-window row that precedes the
\* stopping row.
C3_NoPartialResult ==
    FirstLoadDone =>
        BundleHolds(candles,
            SelectSeq(SubSeq(file, 1, StopPos(file) - 1), LoadableInWindow))

\* C4: the seven member series have equal length and the same first and
\* flags as each other and as the bundle.
C4_Aligned ==
    \A m \in Members :
        /\ Len(candles[m].data) = CandlesSize(candles)
        /\ candles[m].first = candles.first
        /\ candles[m].flags = candles.flags

\* A repeated load has added rows to a bundle that held rows already and
\* whose first and flags were both set.
C4_Witness ==
    /\ pc = "ret" /\ base > 0
    /\ CandlesSize(candles) > base
    /\ candles.first > 0 /\ candles.flags > 0

\* C5: every series (the standalone series, the bundle's members, both
\* series of every TA output) has first <= size().
C5_FirstWithinSize ==
    /\ series.first <= Len(series.data)
    /\ \A m \in Members : candles[m].first <= Len(candles[m].data)
    /\ \A i \in 1..Len(ta.outputs) :
        /\ ta.outputs[i].real.first <= Len(ta.outputs[i].real.data)
        /\ ta.outputs[i].integer.first <= Len(ta.outputs[i].integer.data)

\* A TA constructor has completed and has not returned yet: its arguments
\* are still in scope and unchanged.
TACompleted == pc = "ta" /\ ta.stage = "done"

\* C6: after a single-input construction completes, every output series
\* has first = input first + lookback and the input's length.
C6_SingleInputShape ==
    (TACompleted /\ Len(ta.inputs) = 1) =>
        \A i \in 1..Len(ta.outputs) :
            /\ ValidSeries(ta.outputs[i]).first =
                   InputFirst(ta.inputs[1], candles, series) + ta.lookback
            /\ Len(ValidSeries(ta.outputs[i]).data) =
                   InputLen(ta.inputs[1], candles, series)

\* A completed single-input construction over an input with first > 0,
\* with a positive lookback and at least one computed element.
C6_Witness ==
    /\ TACompleted /\ Len(ta.inputs) = 1
    /\ InputFirst(ta.inputs[1], candles, series) > 0
    /\ ta.lookback > 0
    /\ ta.outNbElement > 0

\* C7: in a two-input construction the start bound for both inputs is the
\* larger of the two firsts and the length is the smaller of the two sizes,
\* and the outputs of the completed construction are sized from them.
C7_TwoInputAlignment ==
    (pc = "ta" /\ ta.stage \in {"update", "done"} /\ Len(ta.inputs) = 2) =>
        LET f1 == InputFirst(ta.inputs[1], candles, series)
            f2 == InputFirst(ta.inputs[2], candles, series)
            n1 == InputLen(ta.inputs[1], candles, series)
            n2 == InputLen(ta.inputs[2], candles, series)
            start == IF f1 >= f2 THEN f1 ELSE f2
            length == IF n1 <= n2 THEN n1 ELSE n2
        IN  /\ ta.inputFirst = start
            /\ ta.inputSize = length
            /\ ta.inputPtr = <<start, start>>
            /\ ta.stage = "done" =>
                 \A i \in 1..Len(ta.outputs) :
                    /\ ValidSeries(ta.outputs[i]).first = start + ta.lookback
                    /\ Len(ValidSeries(ta.outputs[i]).data) = length

\* A two-input construction has completed although the inputs differ in
\* both first and size.
C7_Witness ==
    /\ TACompleted /\ Len(ta.inputs) = 2
    /\ InputFirst(ta.inputs[1], candles, series)
          # InputFirst(ta.inputs[2], candles, series)
    /\ InputLen(ta.inputs[1], candles, series)
          # InputLen(ta.inputs[2], candles, series)

\* The pair the external call reported is the expected one.
ReportMatches ==
    /\ ta.outBegIdx = ta.lookback
    /\ ta.outNbElement = ta.inputSize - (ta.inputFirst + ta.lookback)

\* C8: a construction is complete only if the external call reported
\* begin index = lookback and count = length - (start + lookback); after
\* any other report the process has terminated with no complete TA object.
C8_PostconditionsChecked ==
    /\ ta.stage = "done" => ReportMatches
    /\ (ta.called /\ ~ReportMatches) => (pc = "exit" /\ ta.stage # "done")

\* The process terminated in update because the reported count was wrong
\* while the reported begin index was right.
C8_Witness ==
    /\ pc = "exit" /\ ta.stage = "update" /\ ta.called
    /\ ta.outBegIdx = ta.lookback
    /\ ta.outNbElement # ta.inputSize - (ta.inputFirst + ta.lookback)
    /\ ta.outNbElement > 0

\* The option's name is not in the handle's optional-parameter table.
UnknownOption(name, o) ==
    \A i \in 1..Len(FuncTable[name].optInputs) :
        FuncTable[name].optInputs[i].paramName # o.name

\* The option's stored type differs from the declared parameter type.
MistypedOption(name, o) ==
    \E i \in 1..Len(FuncTable[name].optInputs) :
        /\ FuncTable[name].optInputs[i].paramName = o.name
        /\ \/ /\ FuncTable[name].optInputs[i].type
                    \in {"RealRange", "RealList"}
              /\ o.type = "INTEGER"
           \/ /\ FuncTable[name].optInputs[i].type
                    \in {"IntegerRange", "IntegerList"}
              /\ o.type = "REAL"

BadOptionAt(t, k) ==
    /\ t.name \in DOMAIN FuncTable
    /\ k \in 1..Len(t.options)
    /\ UnknownOption(t.name, t.options[k])
          \/ MistypedOption(t.name, t.options[k])

\* C9: a construction with an unknown or mistyped option never binds that
\* option, never binds an input and never invokes the external function;
\* the step that reaches the option terminates the process, in option
\* binding.
C9_BadOptionFatal ==
    [][ /\ \A k \in 1..Len(ta'.options) :
              BadOptionAt(ta', k) =>
                  /\ ta'.stage = "options" /\ ta'.optIdx < k
                  /\ ta'.bound = 0 /\ ~ta'.called
        /\ (pc = "ta" /\ ta.stage = "options"
                /\ BadOptionAt(ta, ta.optIdx + 1))
              => (pc' = "exit" /\ ta'.stage = "options" /\ ta'.bound = 0
                    /\ ~ta'.called)
      ]_vars

\* The process terminated at a bad option that follows a bound one, in
\* option binding, with no input bound and the external function not
\* invoked.
C9_Witness ==
    /\ pc = "exit" /\ ta.stage = "options"
    /\ ta.optIdx = 1
    /\ BadOptionAt(ta, ta.optIdx + 1)
    /\ ta.bound = 0 /\ ~ta.called

\* The indices of a buffer that the external call did not store to.
Unwritten(s) == {k \in 1..Len(s.data) : s.data[k] = "placeholder"}

\* C10 as stated: each output buffer of a completed construction has the
\* effective input length, and its unwritten cells are exactly the first
\* lookback cells.
C10_LookbackPrefix ==
    ta.stage = "done" =>
        \A i \in 1..Len(ta.outputs) :
            /\ Len(ValidSeries(ta.outputs[i]).data) = ta.inputSize
            /\ Unwritten(ValidSeries(ta.outputs[i])) = 1..ta.lookback

\* C10 amended: the unwritten cells are exactly the first
\* (effective start + lookback) cells.
C10_OutputFirstPrefix ==
    ta.stage = "done" =>
        \A i \in 1..Len(ta.outputs) :
            /\ Len(ValidSeries(ta.outputs[i]).data) = ta.inputSize
            /\ Unwritten(ValidSeries(ta.outputs[i]))
                   = 1..(ta.inputFirst + ta.lookback)

\* A completed construction with a positive start and a positive lookback
\* whose outputs hold a computed cell after the unwritten prefix.
C10_Witness ==
    /\ ta.stage = "done"
    /\ ta.inputFirst > 0 /\ ta.lookback > 0
    /\ \A i \in 1..Len(ta.outputs) :
          /\ Unwritten(ValidSeries(ta.outputs[i]))
                = 1..(ta.inputFirst + ta.lookback)
          /\ ta.inputFirst + ta.lookback
                < Len(ValidSeries(ta.outputs[i]).data)

\* ----------------------------------------------------------------- C11
\* A render has run on a chart of at least one pane.
Rendered == renders >= 1 /\ Len(chart.panes) >= 1

\* The exact value of the ratios of the first k panes over 2^e, e the given
\* exponent (no ratio has a smaller one): no rounding takes place.
RECURSIVE ExactRatioSum(_, _, _)
ExactRatioSum(panes, k, e) ==
    IF k = 0 THEN << >>
    ELSE BAdd(ExactRatioSum(panes, k - 1, e),
              BShl(panes[k].ratio.man, panes[k].ratio.exp - e))

\* The ratios of all panes add up to 1.
RatiosSumToOne(panes) ==
    LET e == CHOOSE x \in {panes[i].ratio.exp : i \in 1..Len(panes)} :
                 \A i \in 1..Len(panes) : x <= panes[i].ratio.exp
    IN  ExactRatioSum(panes, Len(panes), e) = BShl(<<1>>, -e)

\* |x| < 2^-50
Tiny(x) == x.man = << >> \/ x.exp + Precision <= -50

\* p * 10^k / q rounded to the nearest integer, ties to even
RoundedQuotient(p, q, k) ==
    LET num == p * 10 ^ k
        d == num \div q
        rem == num % q
    IN  IF 2 * rem > q \/ (2 * rem = q /\ d % 2 = 1) THEN d + 1 ELSE d

\* The fraction p / q (0 < p <= q) written with six significant digits.
RECURSIVE FractionDigits(_, _, _)
FractionDigits(p, q, k) ==
    IF RoundedQuotient(p, q, k) >= 100000
    THEN [sign |-> 1, digits |-> StripZeros(RoundedQuotient(p, q, k)),
          exp10 |-> 5 - k]
    ELSE FractionDigits(p, q, k + 1)

FractionText(p, q) == FmtText(FractionDigits(p, q, 0))

NumBlocks(data) == Cardinality({i \in 1..Len(data) : data[i] = Sentinel})

\* Calls recorded on a pane from entry from + 1 on, and those among them
\* that are drawCandles or drawVolumes calls.
CallsSince(log, from) == Len(log) - from

BarCallsSince(log, from) ==
    Cardinality({i \in (from + 1)..Len(log) : log[i].op # "draw"})

\* What a step added to pane p: plot clauses, blocks, recorded calls.
AddedClauses(p) ==
    NumClauses(chart'.panes[p].cmd) - NumClauses(chart.panes[p].cmd)

AddedBlocks(p) ==
    NumBlocks(chart'.panes[p].data) - NumBlocks(chart.panes[p].data)

Appended(old, new) == Len(new) >= Len(old) /\ SubSeq(new, 1, Len(old)) = old

\* C12 as stated: every draw call (draw of an integer series, draw of a
\* real series, drawCandles, drawVolumes) appends exactly one plot clause
\* to the pane's command buffer and exactly one sentinel-terminated block
\* to its data buffer.
C12_OneClausePerCall ==
    [][\A p \in 1..Len(drawn) :
        /\ AddedClauses(p) = CallsSince(drawn'[p], Len(drawn[p]))
        /\ AddedBlocks(p) = CallsSince(drawn'[p], Len(drawn[p]))]_vars

\* C12: every draw call appends to the pane's buffers, leaving what they
\* held in place: a draw of an integer or real series appends one plot
\* clause and one sentinel-terminated block, a drawCandles or drawVolumes
\* call appends two plot clauses and two sentinel-terminated blocks, and
\* the data buffer ends with a sentinel after every call.
C12_ClausesPerCall ==
    [][\A p \in 1..Len(drawn) :
        /\ Appended(chart.panes[p].cmd, chart'.panes[p].cmd)
        /\ Appended(chart.panes[p].data, chart'.panes[p].data)
        /\ AddedClauses(p) = CallsSince(drawn'[p], Len(drawn[p]))
                             + BarCallsSince(drawn'[p], Len(drawn[p]))
        /\ AddedBlocks(p) = AddedClauses(p)
        /\ (Len(drawn'[p]) > Len(drawn[p]) =>
               chart'.panes[p].data[Len(chart'.panes[p].data)] = Sentinel)]_vars

\* A pane on which a drawVolumes call followed a series draw: it holds
\* three clauses and three blocks after two calls.
C12_Witness ==
    /\ Len(drawn) = 1
    /\ Len(drawn[1]) = 2
    /\ drawn[1][1].op = "draw"
    /\ drawn[1][2].op = "drawVolumes"
    /\ NumClauses(chart.panes[1].cmd) = 3
    /\ NumBlocks(chart.panes[1].data) = 3

\* ------------------------------------------------------------------- C13
\* The calls a step recorded on pane p.
NewCalls(p) == SubSeq(drawn'[p], Len(drawn[p]) + 1, Len(drawn'[p]))

\* The title clauses of the plot clauses a step appended to pane p: a
\* series draw puts four pieces into the command stream, the title last.
NewTitles(p) ==
    [k \in 1..Len(NewCalls(p)) |->
        chart'.panes[p].cmd[Len(chart.panes[p].cmd) + 4 * k]]

\* The label as stated: the output's own name when no override is given.
StatedLabel(ind, k, name) ==
    IF name = "" THEN ind.outputs[k].name
    ELSE IF Len(ind.outputs) > 1 THEN name \o ":" \o ind.outputs[k].name
    ELSE name

\* The label of output k: without an override the output's own name for an
\* indicator of several outputs and the indicator's name for an indicator
\* of one output.
OutputLabel(ind, k, name) ==
    IF name # ""
    THEN IF Len(ind.outputs) > 1 THEN name \o ":" \o ind.outputs[k].name
         ELSE name
    ELSE IF Len(ind.outputs) > 1 THEN ind.outputs[k].name
    ELSE ind.name

\* The step is a draw(indicator, name) call.
IsDrawTA == call'.op = "drawTA" /\ drawn' # drawn

StatedLabels(ind, name) ==
    [k \in 1..Len(ind.outputs) |-> StatedLabel(ind, k, name)]

OutputLabels(ind, name) ==
    [k \in 1..Len(ind.outputs) |-> OutputLabel(ind, k, name)]

\* One series draw call per declared output, in output order, on the
\* output's series of its declared type, labelled by labels.
DrawsOutputs(p, ind, labels) ==
    /\ Len(NewCalls(p)) = Len(ind.outputs)
    /\ \A k \in 1..Len(ind.outputs) :
        /\ NewCalls(p)[k].op = "draw"
        /\ NewCalls(p)[k].type = ind.outputs[k].type
        /\ NewCalls(p)[k].series = ValidSeries(ind.outputs[k])
        /\ NewCalls(p)[k].name = labels[k]
        /\ NewTitles(p)[k] = titleClause(labels[k])

\* C13 as stated: draw(indicator, name) issues one series draw call per
\* declared output, in output order, labelled with the output's own name
\* when no override is given, with the override for a single-output
\* indicator, and with '<override>:<output name>' for a multi-output one.
C13_OutputNameLabels ==
    [][IsDrawTA =>
        DrawsOutputs(call'.pane, call'.ind,
                     StatedLabels(call'.ind, call'.name))]_vars

\* C13: draw(indicator, name) issues one series draw call per declared
\* output, in output order; with an override the label is the override
\* for a single-output indicator and '<override>:<output name>' for a
\* multi-output one, and with no override it is the output's own name for
\* a multi-output indicator and the indicator's name for a single-output
\* one.
C13_Labels ==
    [][IsDrawTA =>
        DrawsOutputs(call'.pane, call'.ind,
                     OutputLabels(call'.ind, call'.name))]_vars

\* A single-output indicator drawn without an override: the series is
\* titled with the indicator's name, which is not its output's name.
C13_Witness ==
    /\ call.op = "drawTA"
    /\ call.name = ""
    /\ Len(call.ind.outputs) = 1
    /\ call.ind.name = "EMA"
    /\ call.ind.outputs[1].name = "outReal"
    /\ drawn[call.pane][Len(drawn[call.pane])].name = "EMA"
    /\ titleClause("EMA") \in
           {chart.panes[call.pane].cmd[i] :
               i \in 1..Len(chart.panes[call.pane].cmd)}

\* ------------------------------------------------------------------- C14
\* The step is a render call that follows a render call; the program
\* makes no draw or addPane call after its first render.
RenderAgain == renders >= 1 /\ renders' = renders + 1

\* C14 as stated: render is not idempotent: a second render in succession
\* does not leave the script content and the chart and pane state as the
\* first left them.
C14_NotIdempotent ==
    [][RenderAgain => (script' # script \/ chart' # chart)]_vars

\* C14: render is idempotent: a render that follows a render, with no
\* draw or addPane call in between, opens the same script path, writes
\* the same content in place of the old and leaves every field of the
\* chart and of its panes (paths, ratios, offsets, buffers) as they were.
C14_Idempotent ==
    [][RenderAgain =>
        /\ script' = script
        /\ chart' = chart
        /\ script'.path = ScriptPath(chart)
        /\ script'.lines = RenderOp(chart, NoFile).script.lines]_vars

\* A chart with the default panes rendered twice, its script written.
C14_Witness ==
    /\ renders = 2
    /\ Len(chart.panes) >= 2
    /\ chart.panes[1].cmd # << >>
    /\ Len(script.lines) > Len(RenderHead(chart, Len(chart.panes)))
    /\ script.lines[Len(script.lines)] = "unset multiplot"

\* ------------------------------------------------------------------- C15
\* The candle the merge of a and b is stated to leave in a.
StatedMerge(a, b) ==
    Candle(a.open, Max(a.high, b.high), Min(a.low, b.low), b.close,
           a.volume + b.volume, a.openInterest, a.time)

\* The call a += b is over: it returned to its caller or ended the process.
MergeOver == merge.pc \in {"returned", "trapped"}

Meaningful(s) == {i \in 0..(Len(s.data) - 1) : s.first <= i}

\* The block a series draw call is to write: one row per meaningful index,
\* in increasing order, carrying the index and the entry, then the
\* sentinel.
SeriesBlock(e) ==
    [k \in 1..Cardinality(Meaningful(e.series)) |->
        IntText(e.series.first + k - 1) \o "\t"
        \o ElementText(e.type, e.series.data[e.series.first + k])]
    \o <<Sentinel>>

\* The blocks of a sequence of series draw calls, in call order.
RECURSIVE SeriesBlocks(_)
SeriesBlocks(calls) ==
    IF calls = << >> THEN << >>
    ELSE SeriesBlock(Head(calls)) \o SeriesBlocks(Tail(calls))

\* What a step appended to the data stream of pane p.
NewData(p) ==
    SubSeq(chart'.panes[p].data, Len(chart.panes[p].data) + 1,
           Len(chart'.panes[p].data))

\* The step makes series draw calls only (one, or one per output of an
\* indicator) on pane p.
SeriesDrawsOn(p) ==
    /\ Len(drawn'[p]) > Len(drawn[p])
    /\ \A k \in 1..Len(NewCalls(p)) : NewCalls(p)[k].op = "draw"

\* C16: drawing an integer or real series appends rows exactly for the
\* indices i with first <= i < size(), in increasing order, each carrying i
\* and series[i], then the sentinel; nothing below first is emitted, and a
\* series with first >= size() yields a block of the sentinel alone.
C16_RowsFromFirst ==
    [][\A p \in 1..Len(drawn) :
        SeriesDrawsOn(p) =>
            /\ NewData(p) = SeriesBlocks(NewCalls(p))
            /\ \A k \in 1..Len(NewCalls(p)) :
                Len(NewCalls(p)[k].series.data) <= NewCalls(p)[k].series.first
                    => SeriesBlock(NewCalls(p)[k]) = <<Sentinel>>]_vars

\* A pane that drew a real series of three entries with first = 1, then an
\* integer series with first = 2: rows 1 and 2 of the one, row 2 of the
\* other.
C16_Witness ==
    /\ Len(drawn) = 1
    /\ Len(drawn[1]) = 2
    /\ drawn[1][1].op = "draw"
    /\ drawn[1][1].series.first = 1
    /\ drawn[1][2].op = "draw"
    /\ chart.panes[1].data = <<"1\t20", "2\t30", "e", "2\t-100", "e">>

\* ------------------------------------------------------------------- C17
\* Every input of the construction under way satisfies first <= size().
InputsSound ==
    \A i \in 1..Len(ta.inputs) :
        InputFirst(ta.inputs[i], candles, series)
            <= InputLen(ta.inputs[i], candles, series)

\* &input[inputFirst], for each input bound so far: the index is at most
\* the input's length.
InputStartsInBounds ==
    \A i \in 1..Len(ta.inputPtr) :
        ta.inputPtr[i] <= InputLen(ta.inputs[i], candles, series)

\* &outputs[i].real[outputFirst], once update has set the output
\* pointers: the index is at most the output buffer's length.
OutputStartsInBounds ==
    ta.called =>
        \A i \in 1..Len(ta.outputs) :
            OutputFirst(ta.inputFirst, ta.lookback)
                <= Len(ValidSeries(ta.outputs[i]).data)

\* The end index handed to TA_CallFunc is not below -1.
EndIdxInBounds == ta.called => EndIdx(ta.inputSize, ta.inputFirst) >= -1

\* C17: during a one- or two-input TA construction over inputs that each
\* satisfy first <= size(), every index at which a buffer is addressed
\* (the effective start into each input, the effective start plus the
\* lookback into each output buffer) is at most that buffer's length, and
\* the end index passed to the external call is never below -1.
C17_IndicesInBounds ==
    (ta.inputs # << >> /\ InputsSound) =>
        /\ InputStartsInBounds
        /\ OutputStartsInBounds
        /\ EndIdxInBounds

\* ------------------------------------------------------------------- C18
\* The lines at which a data stream holds the sentinel, in order.
SentinelLines(data) ==
    LET IsSentinel(i) == data[i] = Sentinel
    IN  SelectSeq([i \in 1..Len(data) |-> i], IsSentinel)

\* The rows of the k-th sentinel-terminated block of a data stream.
Block(data, k) ==
    SubSeq(data,
           IF k = 1 THEN 1 ELSE SentinelLines(data)[k - 1] + 1,
           SentinelLines(data)[k] - 1)

\* Clause k of a command stream: the four pieces a clause is made of.
Clause(cmd, k) == SubSeq(cmd, 4 * k - 3, 4 * k)

\* The row of candle i a drawCandles clause plots, and the row a
\* drawVolumes clause plots.
PlottedRow(e, i) ==
    IF e.op = "drawVolumes"
    THEN IntText(i - 1) \o "\t" \o RealText(e.candles.volume.data[i])
    ELSE IntText(i - 1) \o "\t" \o RealText(e.candles.open.data[i])
         \o "\t" \o RealText(e.candles.high.data[i])
         \o "\t" \o RealText(e.candles.low.data[i])
         \o "\t" \o RealText(e.candles.close.data[i])

\* The rows of the candles with open > close (falling), or of the others.
PlottedRows(e, falling) ==
    LET Wanted(i) ==
            (e.candles.open.data[i] > e.candles.close.data[i]) = falling
        wanted == SelectSeq([i \in 1..CandlesSize(e.candles) |-> i], Wanted)
    IN  [k \in 1..Len(wanted) |-> PlottedRow(e, wanted[k])]

\* The clauses a recorded call is to leave, each with the rows it plots: a
\* series draw one titled clause over the series' meaningful rows, a
\* drawCandles or drawVolumes call a green clause over the rising candles
\* and a red one over the falling candles.
CallParts(e) ==
    IF e.op = "draw"
    THEN <<[clause |-> <<"using 1:2 ", styleClause(e.series.flags),
                         titleClause(e.name)>>,
            rows |-> SubSeq(SeriesBlock(e), 1, Len(SeriesBlock(e)) - 1)]>>
    ELSE <<[clause |-> <<IF e.op = "drawVolumes" THEN "using 1:2 notitle "
                         ELSE "using 1:2:3:4:5 notitle ",
                         IF e.op = "drawVolumes" THEN "with impulses "
                         ELSE styleClauseBars(e.bars),
                         color("green")>>,
            rows |-> PlottedRows(e, FALSE)],
           [clause |-> <<IF e.op = "drawVolumes" THEN "using 1:2 notitle "
                         ELSE "using 1:2:3:4:5 notitle ",
                         IF e.op = "drawVolumes" THEN "with impulses "
                         ELSE styleClauseBars(e.bars),
                         color("red")>>,
            rows |-> PlottedRows(e, TRUE)]>>

\* The parts of a sequence of recorded calls, in call order.
RECURSIVE Parts(_)
Parts(log) ==
    IF log = << >> THEN << >> ELSE CallParts(Head(log)) \o Parts(Tail(log))

\* A pane's clauses and blocks pair up as parts says.
PairedUp(pane, parts) ==
    /\ NumClauses(pane.cmd) = Len(parts)
    /\ NumBlocks(pane.data) = Len(parts)
    /\ Len(pane.cmd) = 4 * Len(parts)
    /\ pane.data # << >> => pane.data[Len(pane.data)] = Sentinel
    /\ \A k \in 1..Len(parts) :
        /\ Clause(pane.cmd, k)
               = <<IF k = 1 THEN PlotToken ELSE CommaToken>> \o parts[k].clause
        /\ Block(pane.data, k) = parts[k].rows
    /\ pane.first = (Len(parts) = 0)

\* C18: after any sequence of draw, drawCandles and drawVolumes calls on a
\* pane, the command buffer holds as many plot clauses as the data buffer
\* holds sentinel-terminated blocks, the k-th block holds the rows of the
\* k-th clause, and exactly the first clause opens with the plot keyword
\* while every later clause is a comma continuation.
C18_ClausesMatchBlocks ==
    \A p \in 1..Len(chart.panes) : PairedUp(chart.panes[p], Parts(drawn[p]))

\* A pane after a series draw and a drawCandles call: three clauses, the
\* third a comma continuation over the one falling candle.
C18_Witness ==
    /\ Len(drawn) = 1
    /\ Len(drawn[1]) = 2
    /\ drawn[1][1].op = "draw"
    /\ drawn[1][2].op = "drawCandles"
    /\ NumClauses(chart.panes[1].cmd) = 3
    /\ chart.panes[1].cmd[1] = PlotToken
    /\ chart.panes[1].cmd[9] = CommaToken
    /\ Len(Block(chart.panes[1].data, 2)) = 2
    /\ Block(chart.panes[1].data, 3) = <<"1\t20\t22\t19\t18">>

====
